---- MODULE Spec2Model ----
(***************************************************************************)
(* PDF text replacer: the Locator, the Replacer, the preview renderer and  *)
(* the command-line entry point (src/app.py, src/pdf_replace.py) as state  *)
(* machines over an abstract document, the Background Sampler as a pure    *)
(* function over a small pixel grid, and the interactive form as a rerun   *)
(* of its script per user action.                                          *)
(***************************************************************************)
EXTENDS Integers, Sequences, FiniteSets, TLC

\* ------------------------------------------------------------------ bounds
\* Pages of a document.
MaxPages == 3
\* Occurrence rectangles page.search_for reports on one page.
MaxRects == 2
\* Text spans on one page (over all its blocks and lines).
MaxSpans == 2

\* --------------------------------------------------------------- documents
\* A span of page.get_text("dict"): which occurrence rectangles its bbox
\* intersects (hit), whether search_text is a substring of its text (has), and
\* its place in the traversal (id), which stands for its size/color/flags.
SpanKinds(n) == [hit : SUBSET (1..n), has : BOOLEAN]

\* Where span i starts: in the current line, in a new line of the current
\* block, or in a new block.
Breaks == {"span", "line", "block"}

\* A block without a "lines" key (an image block).
ImageBlock == [image |-> TRUE]

\* The nested blocks -> lines -> spans structure of k spans with these breaks.
RECURSIVE Nest(_, _, _, _)
Nest(ks, bs, i, blocks) ==
    IF i > Len(ks) THEN blocks
    ELSE LET sp == [id |-> i, hit |-> ks[i].hit, has |-> ks[i].has]
             nb == Len(blocks)
         IN  IF bs[i] = "block" \/ nb = 0
             THEN Nest(ks, bs, i + 1,
                       Append(blocks, [lines |-> << [spans |-> <<sp>>] >>]))
             ELSE IF bs[i] = "line"
             THEN Nest(ks, bs, i + 1,
                       [blocks EXCEPT ![nb].lines = Append(@, [spans |-> <<sp>>])])
             ELSE Nest(ks, bs, i + 1,
                       [blocks EXCEPT
                          ![nb].lines[Len(blocks[nb].lines)].spans = Append(@, sp)])

\* The ways k spans are laid out in lines and blocks; the first opens a block.
Layouts(k) == {b \in [1..k -> Breaks] : k = 0 \/ b[1] = "block"}

\* The page with n occurrence rectangles and these spans in this layout; an
\* image block may come first.
Page(n, ks, bs, img) ==
    [found  |-> [i \in 1..n |-> i],
     blocks |-> (IF img THEN <<ImageBlock>> ELSE <<>>) \o Nest(ks, bs, 1, <<>>)]

\* ------------------------------------------------- Locator / Replacer core
\* page.search_for(search_text): the occurrence rectangles, in search order.
SearchFor(pg) == pg.found

\* span_rect.intersects(inst) and search_text in span["text"]
SpanMatches(span, inst) == inst \in span.hit /\ span.has

\* for span in line["spans"]: the first matching span, then break.
RECURSIVE ScanSpans(_, _, _)
ScanSpans(spans, inst, k) ==
    IF k > Len(spans) THEN <<>>
    ELSE IF SpanMatches(spans[k], inst) THEN <<spans[k]>>
    ELSE ScanSpans(spans, inst, k + 1)

\* for line in block["lines"]: the break above leaves only the span loop, so
\* every line is scanned.
RECURSIVE ScanLines(_, _, _)
ScanLines(lines, inst, k) ==
    IF k > Len(lines) THEN <<>>
    ELSE ScanSpans(lines[k].spans, inst, 1) \o ScanLines(lines, inst, k + 1)

\* for block in blocks: if "lines" in block
RECURSIVE ScanBlocks(_, _, _)
ScanBlocks(blocks, inst, k) ==
    IF k > Len(blocks) THEN <<>>
    ELSE (IF "lines" \in DOMAIN blocks[k]
          THEN ScanLines(blocks[k].lines, inst, 1) ELSE <<>>)
         \o ScanBlocks(blocks, inst, k + 1)

\* for inst in text_instances: one entry per matched span, holding the
\* occurrence rectangle and the span whose formatting it takes.
RECURSIVE ScanInstances(_, _, _, _)
ScanInstances(pg, insts, k, p) ==
    IF k > Len(insts) THEN <<>>
    ELSE [i \in 1..Len(ScanBlocks(pg.blocks, insts[k], 1)) |->
            [page |-> p, rect |-> insts[k],
             span |-> ScanBlocks(pg.blocks, insts[k], 1)[i].id]]
         \o ScanInstances(pg, insts, k + 1, p)

\* PageEntries with the occurrences taken from the spans' text alone, each
\* span that contains the search string being its own occurrence.
PageEntriesByText(pg, p) ==
    LET flat == ScanBlocks([b \in 1..Len(pg.blocks) |->
                              IF "lines" \in DOMAIN pg.blocks[b]
                              THEN [lines |-> [l \in 1..Len(pg.blocks[b].lines) |->
                                     [spans |-> [s \in 1..Len(pg.blocks[b].lines[l].spans) |->
                                        [pg.blocks[b].lines[l].spans[s] EXCEPT !.hit = {0}]]]]]
                              ELSE pg.blocks[b]], 0, 1)
    IN  [i \in 1..Len(flat) |-> [page |-> p, rect |-> 0, span |-> flat[i].id]]

\* The entries one page adds: nothing unless the search reported something.
PageEntries(pg, p) ==
    IF SearchFor(pg) # <<>> THEN ScanInstances(pg, SearchFor(pg), 1, p) ELSE <<>>

\* The Replacer's "Perform replacements" loop: per entry, sample, cover, insert.
RECURSIVE EditOps(_, _)
EditOps(repls, k) ==
    IF k > Len(repls) THEN <<>>
    ELSE << [kind |-> "sample", page |-> repls[k].page, rect |-> repls[k].rect],
            [kind |-> "draw",   page |-> repls[k].page, rect |-> repls[k].rect],
            [kind |-> "insert", page |-> repls[k].page, rect |-> repls[k].rect] >>
         \o EditOps(repls, k + 1)

\* The Locator samples the background once per entry, inside the span loop.
LocateOps(entries) ==
    [i \in 1..Len(entries) |->
        [kind |-> "sample", page |-> entries[i].page, rect |-> entries[i].rect]]

\* ------------------------------------------------------------------- state
VARIABLES
    op,                  \* the operation run: locate, replace, preview or cli
    pc,                  \* its position
    hasArg,              \* cli: len(sys.argv) >= 2
    inputExists,         \* cli: Path(input_pdf).exists()
    nPages,              \* len(doc)
    page_num,            \* the page loop's index (0-based)
    handle,              \* the document handle: unopened, open or closed
    replacements_count,  \* the Replacer's count
    instances,           \* the Locator's result list
    rectsSeen,           \* occurrence rectangles the page search reported so far
    log,                 \* sample / draw / insert calls made on pages, in order
    stdout,              \* what was printed to standard output
    stderr,              \* what was printed to standard error
    exitCode,            \* the process exit code (-1: not exited)
    output               \* the output file (cli) or output bytes (replace)

opsVars == <<op, pc, hasArg, inputExists, nPages, page_num, handle,
             replacements_count, instances, rectsSeen, log, stdout, stderr,
             exitCode, output>>

VARIABLES
    sRect,     \* the rectangle the sampler is called with
    sPaint,    \* the page it is called on
    sFails,    \* whether rasterization raises
    sDone,     \* whether the call has returned
    sResult    \* what the call returned

samplerVars == <<sRect, sPaint, sFails, sDone, sResult>>

VARIABLES
    uploaded_file,   \* the file uploader's value: <<>> or <<file>>
    search_text,     \* the "Text to find" field
    replace_text,    \* the "Replace with" field
    session_state,   \* st.session_state: the keys the script sets
    shown,           \* what the last run of the script displayed
    lastAction       \* the user action that caused the last run

formVars == <<uploaded_file, search_text, replace_text, session_state, shown, lastAction>>

Ops == {"locate", "replace", "preview", "cli"}

OpsInit ==
    /\ op \in Ops
    /\ pc = IF op = "cli" THEN "main" ELSE "start"
    /\ hasArg \in (IF op = "cli" THEN BOOLEAN ELSE {TRUE})
    /\ inputExists \in (IF op = "cli" THEN BOOLEAN ELSE {TRUE})
    /\ nPages \in 1..MaxPages
    /\ page_num = 0
    /\ handle = "unopened"
    /\ replacements_count = 0
    /\ instances = <<>>
    /\ rectsSeen = 0
    /\ log = <<>>
    /\ stdout = {}
    /\ stderr = {}
    /\ exitCode = -1
    /\ output = "none"

\* An exception leaves the function. The cli's except clause prints the error
\* and a traceback to standard error and exits with 1; the form's functions
\* have no handler, so it propagates to the caller.
Raise ==
    IF op = "cli"
    THEN /\ stderr' = stderr \cup {"error", "traceback"}
         /\ exitCode' = 1
         /\ pc' = "exit"
    ELSE /\ pc' = "raised"
         /\ UNCHANGED <<stderr, exitCode>>

\* cli main: no input path argument.
Usage ==
    /\ UNCHANGED <<samplerVars, formVars>>
    /\ op = "cli" /\ pc = "main" /\ ~hasArg
    /\ stdout' = stdout \cup {"usage"}
    /\ exitCode' = 1
    /\ pc' = "exit"
    /\ UNCHANGED <<op, hasArg, inputExists, nPages, page_num, handle,
                   replacements_count, instances, rectsSeen, log, stderr, output>>

\* cli main: the input path does not exist.
NotFound ==
    /\ UNCHANGED <<samplerVars, formVars>>
    /\ op = "cli" /\ pc = "main" /\ hasArg /\ ~inputExists
    /\ stderr' = stderr \cup {"not_found"}
    /\ exitCode' = 1
    /\ pc' = "exit"
    /\ UNCHANGED <<op, hasArg, inputExists, nPages, page_num, handle,
                   replacements_count, instances, rectsSeen, log, stdout, output>>

\* cli main: prints "Processing" and calls replace_text_in_pdf.
Start ==
    /\ UNCHANGED <<samplerVars, formVars>>
    /\ op = "cli" /\ pc = "main" /\ hasArg /\ inputExists
    /\ stdout' = stdout \cup {"processing"}
    /\ pc' = "start"
    /\ UNCHANGED <<op, hasArg, inputExists, nPages, page_num, handle,
                   replacements_count, instances, rectsSeen, log, stderr,
                   exitCode, output>>

\* doc = fitz.open(...)
Open ==
    /\ UNCHANGED <<samplerVars, formVars>>
    /\ pc = "start"
    /\ handle' = "open"
    /\ pc' = IF op = "preview" THEN "render" ELSE "pages"
    /\ UNCHANGED <<op, hasArg, inputExists, nPages, page_num,
                   replacements_count, instances, rectsSeen, log, stdout,
                   stderr, exitCode, output>>

\* fitz.open raises (bad stream, corrupt document): no handle exists.
OpenRaises ==
    /\ UNCHANGED <<samplerVars, formVars>>
    /\ pc = "start"
    /\ Raise
    /\ UNCHANGED <<op, hasArg, inputExists, nPages, page_num, handle,
                   replacements_count, instances, rectsSeen, log, stdout, output>>

\* One iteration of the page loop, to its end, on a page where the search
\* reports at most maxRects occurrence rectangles.
ScanPage(maxRects) ==
    /\ UNCHANGED <<samplerVars, formVars>>
    /\ pc = "pages" /\ page_num < nPages
    /\ \E n \in 0..maxRects, k \in 0..MaxSpans, img \in BOOLEAN :
       \E ks \in [1..k -> SpanKinds(n)], bs \in Layouts(k) :
         LET pg == Page(n, ks, bs, img)
             entries == PageEntries(pg, page_num + 1)
         IN  /\ rectsSeen' = rectsSeen + Len(pg.found)
             /\ IF op = "locate"
                THEN /\ instances' = instances \o entries
                     /\ log' = log \o LocateOps(entries)
                     /\ UNCHANGED replacements_count
                ELSE /\ replacements_count' = replacements_count + Len(entries)
                     /\ log' = log \o EditOps(entries, 1)
                     /\ UNCHANGED instances
    /\ page_num' = page_num + 1
    /\ UNCHANGED <<op, pc, hasArg, inputExists, nPages, handle, stdout, stderr,
                   exitCode, output>>

ProcessPage == ScanPage(MaxRects)

\* One iteration of the page loop in which a library call raises: the search
\* (nothing done on the page yet), the span extraction (the search reported
\* something), or a draw_rect or insert_text (the calls before it were made).
\* sample_background_color catches its own exceptions and never raises.
ScanPageRaises(maxRects) ==
    /\ UNCHANGED <<samplerVars, formVars>>
    /\ pc = "pages" /\ page_num < nPages
    /\ \/ UNCHANGED <<rectsSeen, log, instances, replacements_count>>
       \/ /\ \E n \in 1..maxRects : rectsSeen' = rectsSeen + n
          /\ UNCHANGED <<log, instances, replacements_count>>
       \/ /\ op # "locate"
          /\ \E n \in 1..maxRects, k \in 1..MaxSpans, img \in BOOLEAN :
             \E ks \in [1..k -> SpanKinds(n)], bs \in Layouts(k) :
               LET pg == Page(n, ks, bs, img)
                   entries == PageEntries(pg, page_num + 1)
                   ops == EditOps(entries, 1)
               IN  \E m \in 1..Len(ops) :
                     /\ ops[m].kind \in {"draw", "insert"}
                     /\ rectsSeen' = rectsSeen + Len(pg.found)
                     /\ replacements_count' = replacements_count + Len(entries)
                     /\ log' = log \o SubSeq(ops, 1, m - 1)
                     /\ UNCHANGED instances
    /\ Raise
    /\ UNCHANGED <<op, hasArg, inputExists, nPages, page_num, handle, stdout, output>>

PageRaises == ScanPageRaises(MaxRects)

\* doc.save(output_pdf, ...) / doc.write(...)
Save ==
    /\ UNCHANGED <<samplerVars, formVars>>
    /\ op \in {"replace", "cli"} /\ pc = "pages" /\ page_num = nPages
    /\ output' = "complete"
    /\ pc' = "close"
    /\ UNCHANGED <<op, hasArg, inputExists, nPages, page_num, handle,
                   replacements_count, instances, rectsSeen, log, stdout,
                   stderr, exitCode>>

\* Serialization raises.  doc.save writes to the output path itself, so what
\* it leaves there when it fails is the library's: nothing or a partial file.
\* Nothing in the except clause removes it.
SaveRaises ==
    /\ UNCHANGED <<samplerVars, formVars>>
    /\ op \in {"replace", "cli"} /\ pc = "pages" /\ page_num = nPages
    /\ output' \in (IF op = "cli" THEN {"none", "partial"} ELSE {"none"})
    /\ Raise
    /\ UNCHANGED <<op, hasArg, inputExists, nPages, page_num, handle,
                   replacements_count, instances, rectsSeen, log, stdout>>

\* Preview: page.get_pixmap and pix.tobytes.
Render ==
    /\ UNCHANGED <<samplerVars, formVars>>
    /\ op = "preview" /\ pc = "render"
    /\ output' = "complete"
    /\ pc' = "close"
    /\ UNCHANGED <<op, hasArg, inputExists, nPages, page_num, handle,
                   replacements_count, instances, rectsSeen, log, stdout,
                   stderr, exitCode>>

\* Preview: rasterization or encoding raises.
RenderRaises ==
    /\ UNCHANGED <<samplerVars, formVars>>
    /\ op = "preview" /\ pc = "render"
    /\ Raise
    /\ UNCHANGED <<op, hasArg, inputExists, nPages, page_num, handle,
                   replacements_count, instances, rectsSeen, log, stdout, output>>

\* doc.close(), reached only when nothing before it raised.
Close ==
    /\ UNCHANGED <<samplerVars, formVars>>
    /\ \/ pc = "close"
       \/ op = "locate" /\ pc = "pages" /\ page_num = nPages
    /\ handle' = "closed"
    /\ pc' = IF op = "cli" THEN "report" ELSE "done"
    /\ UNCHANGED <<op, hasArg, inputExists, nPages, page_num,
                   replacements_count, instances, rectsSeen, log, stdout,
                   stderr, exitCode, output>>

\* cli: the two success lines, then the process ends normally.
Report ==
    /\ UNCHANGED <<samplerVars, formVars>>
    /\ op = "cli" /\ pc = "report"
    /\ stdout' = stdout \cup {"success"}
    /\ exitCode' = 0
    /\ pc' = "done"
    /\ UNCHANGED <<op, hasArg, inputExists, nPages, page_num, handle,
                   replacements_count, instances, rectsSeen, log, stderr, output>>

\* cli: printing the success lines raises (standard output closed, or unable
\* to encode the check mark); the print is inside the try block.
ReportRaises ==
    /\ UNCHANGED <<samplerVars, formVars>>
    /\ op = "cli" /\ pc = "report"
    /\ Raise
    /\ UNCHANGED <<op, hasArg, inputExists, nPages, page_num, handle,
                   replacements_count, instances, rectsSeen, log, stdout, output>>


\* ------------------------------------------------------ Background Sampler
\* The page is PageW x PageH units; at native resolution one unit is a pixel.
PageW == 20
PageH == 2

Max(a, b) == IF a >= b THEN a ELSE b
Min(a, b) == IF a <= b THEN a ELSE b

White255 == <<255, 255, 255>>
Yellow255 == <<255, 255, 0>>
Black255 == <<0, 0, 0>>
Colors == {White255, Yellow255}

\* A rectangle handed to the sampler; it may reach past the page's edges.
Rects ==
    { [x0 |-> a, y0 |-> b, x1 |-> c, y1 |-> d] :
        a \in 0..(PageW + 5), c \in 0..(PageW + 5),
        b \in 0..(PageH + 2), d \in 0..(PageH + 2) }

\* What is painted on the page: the background, and a yellow band left of
\* the column split (no band when split is 0).
Paints == [bg : Colors, left : {Yellow255}, split : {0, PageW \div 2}]

\* The color of the page at (px, py): text ink inside the occurrence rectangle.
PagePixel(paint, rect, px, py) ==
    IF rect.x0 <= px /\ px < rect.x1 /\ rect.y0 <= py /\ py < rect.y1
    THEN Black255
    ELSE IF px < paint.split THEN paint.left ELSE paint.bg

\* Expanded without the margins: the rectangle itself.
ExpandedNoMargin(rect) ==
    [x0 |-> rect.x0, y0 |-> rect.y0, x1 |-> rect.x1, y1 |-> rect.y1]

\* expanded = fitz.Rect(rect.x0 - 5, rect.y0 - 2, rect.x1 + 5, rect.y1 + 2)
Expanded(rect) ==
    [x0 |-> rect.x0 - 5, y0 |-> rect.y0 - 2, x1 |-> rect.x1 + 5, y1 |-> rect.y1 + 2]

\* page.get_pixmap(clip=expanded, alpha=False): the clip cut to the page, one
\* pixel per unit.
Pixmap(clip) ==
    LET x0 == Max(clip.x0, 0)
        y0 == Max(clip.y0, 0)
        x1 == Min(clip.x1, PageW)
        y1 == Min(clip.y1, PageH)
    IN  [x0 |-> x0, y0 |-> y0, width |-> Max(0, x1 - x0), height |-> Max(0, y1 - y0)]

\* pix.pixel(x, y)[:3]
PixPixel(paint, rect, pix, x, y) == PagePixel(paint, rect, pix.x0 + x, pix.y0 + y)

\* range(0, stop, step), step >= 1
Range(stop, step) == [i \in 1..((stop + step - 1) \div step) |-> (i - 1) * step]

\* Columns with the step taken as a twentieth of the width.
ColumnsTwentieth(width) == Range(width, Max(1, width \div 20))

\* The sample columns: range(0, width, max(1, width // 10))
Columns(width) == Range(width, Max(1, width \div 10))

\* The samples list: per column the top pixel, then the bottom pixel if the
\* region is taller than one pixel.
RECURSIVE CollectSamples(_, _, _, _, _)
CollectSamples(paint, rect, pix, cols, k) ==
    IF k > Len(cols) THEN <<>>
    ELSE (IF pix.height > 0 THEN <<PixPixel(paint, rect, pix, cols[k], 0)>> ELSE <<>>)
         \o (IF pix.height > 1
             THEN <<PixPixel(paint, rect, pix, cols[k], pix.height - 1)>> ELSE <<>>)
         \o CollectSamples(paint, rect, pix, cols, k + 1)

Count(samples, c) == Cardinality({i \in 1..Len(samples) : samples[i] = c})

\* Counter(samples).most_common(1)[0][0]: the most frequent value, the one
\* seen first among equals.
MostCommon(samples) ==
    LET best == CHOOSE n \in 0..Len(samples) :
                   /\ \E i \in 1..Len(samples) : Count(samples, samples[i]) = n
                   /\ \A i \in 1..Len(samples) : Count(samples, samples[i]) <= n
        first == CHOOSE i \in 1..Len(samples) :
                   /\ Count(samples, samples[i]) = best
                   /\ \A j \in 1..(i - 1) : Count(samples, samples[j]) # best
    IN  samples[first]

\* channel / 255.0
Div255(c) == [num |-> c, den |-> 255]
One == [num |-> 1, den |-> 1]

\* return (1, 1, 1)
DefaultWhite == <<One, One, One>>

\* sample_background_color(page, rect); fails: page.get_pixmap raises, which
\* the function catches.
SampleBackgroundColor(paint, rect, fails) ==
    LET pix == Pixmap(Expanded(rect))
        cols == IF fails THEN <<>> ELSE Columns(pix.width)
        samples == CollectSamples(paint, rect, pix, cols, 1)
    IN  [color   |-> IF samples # <<>>
                     THEN LET m == MostCommon(samples)
                          IN  <<Div255(m[1]), Div255(m[2]), Div255(m[3])>>
                     ELSE DefaultWhite,
         columns |-> Len(cols),
         samples |-> Len(samples),
         warned  |-> fails]

NoResult == [color |-> DefaultWhite, columns |-> 0, samples |-> 0, warned |-> FALSE]



Sample ==
    /\ UNCHANGED <<opsVars, formVars>>
    /\ ~sDone
    /\ sDone' = TRUE
    /\ sResult' = SampleBackgroundColor(sPaint, sRect, sFails)
    /\ UNCHANGED <<sRect, sPaint, sFails>>

\* -------------------------------------------------------- interactive form
\* What can be uploaded: a file name and its bytes.
Uploads == { [name |-> "a.pdf", bytes |-> "A"], [name |-> "b.pdf", bytes |-> "B"] }

\* Path(name).stem
Stem(name) == IF name = "a.pdf" THEN "a" ELSE "b"

\* f"{original_name}_modified.pdf"
OutputFilename(name) == <<Stem(name), "_modified.pdf">>

\* What can be typed into the two text fields.
Texts == {"", "Premium", "Standard"}

\* The strings each document renders, once, on its only page.
Renders(bytes) == IF bytes = "A" THEN {"Premium"} ELSE {"Standard"}

\* The document as the library reports it for a search string: its pages,
\* each with the search's rectangles and the text structure.
FormDoc(bytes, text) ==
    LET occurs == text \in Renders(bytes)
    IN  << [found  |-> IF occurs THEN <<1>> ELSE <<>>,
            blocks |-> << [lines |-> << [spans |->
                        << [id |-> 1, hit |-> IF occurs THEN {1} ELSE {},
                            has |-> occurs] >>] >>] >>] >>

RECURSIVE DocEntries(_, _)
DocEntries(doc, k) ==
    IF k > Len(doc) THEN <<>>
    ELSE PageEntries(doc[k], k) \o DocEntries(doc, k + 1)

\* find_text_instances(pdf_bytes, search_text), when nothing raises.
FindTextInstances(bytes, text) ==
    LET found == DocEntries(FormDoc(bytes, text), 1)
    IN  [i \in 1..Len(found) |->
            [page |-> found[i].page, rect |-> found[i].rect, text |-> text]]

\* replace_text_in_pdf(pdf_bytes, search_text, replace_text), when nothing
\* raises: the output bytes (the source bytes and the edits made) and the count.
ReplaceTextInPdf(bytes, text, repl) ==
    LET found == DocEntries(FormDoc(bytes, text), 1)
    IN  [bytes |-> [src |-> bytes,
                    edits |-> [i \in 1..Len(found) |->
                                 [page |-> found[i].page, rect |-> found[i].rect,
                                  text |-> repl]]],
         count |-> Len(found)]

\* The unmodified document as bytes.
Original(bytes) == [src |-> bytes, edits |-> <<>>]

\* render_pdf_preview(pdf_bytes): an image of page 1 of these bytes.
RenderPdfPreview(docBytes) == [image_of |-> docBytes]

\* st.session_state[k] = v
Put(state, k, v) == [x \in DOMAIN state \cup {k} |-> IF x = k THEN v ELSE state[x]]

Nothing ==
    [info |-> FALSE, results |-> <<>>, found_for |-> <<>>, previews |-> <<>>,
     download |-> <<>>, warnings |-> {}]

\* Lines 210-217: the Find button's branch.  An empty search string does
\* nothing at all.
AfterButton(bytes, clicked) ==
    IF clicked /\ search_text # ""
    THEN Put(Put(Put(Put(session_state,
            "instances", FindTextInstances(bytes, search_text)),
            "pdf_bytes", bytes),
            "search_text", search_text),
            "replace_text", replace_text)
    ELSE session_state

\* One run of the script, top to bottom, with the widgets' current values.
Rerun(clicked) ==
    IF uploaded_file = <<>>
    THEN /\ shown' = [Nothing EXCEPT !.info = TRUE]
         /\ UNCHANGED session_state
    ELSE LET s1 == AfterButton(uploaded_file[1].bytes, clicked)
         IN  IF "instances" \in DOMAIN s1 /\ s1["instances"] # <<>>
             THEN LET modified == ReplaceTextInPdf(s1["pdf_bytes"], s1["search_text"],
                                                   s1["replace_text"]).bytes
                      s2 == Put(s1, "modified_bytes", modified)
                  IN  /\ session_state' = s2
                      /\ shown' =
                           [Nothing EXCEPT
                              !.results = s1["instances"],
                              !.found_for = <<s1["search_text"]>>,
                              !.previews = << RenderPdfPreview(Original(s1["pdf_bytes"])),
                                              RenderPdfPreview(modified) >>,
                              !.download = << [data |-> s2["modified_bytes"],
                                               file_name |-> OutputFilename(uploaded_file[1].name)] >>]
             ELSE IF "instances" \in DOMAIN s1
             THEN /\ session_state' = s1
                  /\ shown' = [Nothing EXCEPT !.warnings = {"not_found"},
                                              !.found_for = <<s1["search_text"]>>]
             ELSE /\ session_state' = s1
                  /\ shown' = Nothing

\* The user uploads a file, or replaces the uploaded one.
Upload ==
    /\ UNCHANGED <<opsVars, samplerVars>>
    /\ \E f \in Uploads : uploaded_file' = <<f>>
    /\ UNCHANGED <<search_text, replace_text>>
    /\ lastAction' = "upload"
    /\ Rerun(FALSE)

\* The user edits the search field (shown only once a file is uploaded).
EditSearch ==
    /\ UNCHANGED <<opsVars, samplerVars>>
    /\ uploaded_file # <<>>
    /\ \E t \in Texts : search_text' = t
    /\ UNCHANGED <<uploaded_file, replace_text>>
    /\ lastAction' = "edit_search"
    /\ Rerun(FALSE)

\* The user edits the replace field.
EditReplace ==
    /\ UNCHANGED <<opsVars, samplerVars>>
    /\ uploaded_file # <<>>
    /\ \E t \in Texts : replace_text' = t
    /\ UNCHANGED <<uploaded_file, search_text>>
    /\ lastAction' = "edit_replace"
    /\ Rerun(FALSE)

\* The user clicks "Find Instances".
ClickFind ==
    /\ UNCHANGED <<opsVars, samplerVars>>
    /\ uploaded_file # <<>>
    /\ UNCHANGED <<uploaded_file, search_text, replace_text>>
    /\ lastAction' = "find"
    /\ Rerun(TRUE)


vars == <<opsVars, samplerVars, formVars>>

\* The operations: one run of the Locator, the Replacer, the preview renderer
\* or the command line.  The sampler and the form stay as constructed.
Init ==
    /\ OpsInit
    /\ sRect = [x0 |-> 0, y0 |-> 0, x1 |-> 0, y1 |-> 0]
    /\ sPaint = [bg |-> White255, left |-> Yellow255, split |-> 0]
    /\ sFails = FALSE
    /\ sDone = FALSE
    /\ sResult = NoResult
    /\ uploaded_file = <<>>
    /\ search_text = "Premium"
    /\ replace_text = "Standard"
    /\ session_state = [x \in {} |-> 0]
    /\ shown = [Nothing EXCEPT !.info = TRUE]
    /\ lastAction = "load"

Next ==
    \/ Usage \/ NotFound \/ Start
    \/ Open \/ OpenRaises
    \/ ProcessPage \/ PageRaises
    \/ Save \/ SaveRaises
    \/ Render \/ RenderRaises
    \/ Close
    \/ Report \/ ReportRaises

Spec == Init /\ [][Next]_vars

\* The same operations on documents in which the page search reports no
\* occurrence on any page.
ZeroNext ==
    \/ Usage \/ NotFound \/ Start
    \/ Open \/ OpenRaises
    \/ ScanPage(0) \/ ScanPageRaises(0)
    \/ Save \/ SaveRaises
    \/ Render \/ RenderRaises
    \/ Close
    \/ Report \/ ReportRaises

ZeroSpec == Init /\ [][ZeroNext]_vars

\* The Background Sampler called once on one page and rectangle.
SamplerInit ==
    /\ op = "none" /\ pc = "idle" /\ hasArg = FALSE /\ inputExists = FALSE
    /\ nPages = 0 /\ page_num = 0 /\ handle = "unopened"
    /\ replacements_count = 0 /\ instances = <<>> /\ rectsSeen = 0
    /\ log = <<>> /\ stdout = {} /\ stderr = {} /\ exitCode = -1
    /\ output = "none"
    /\ sRect \in {r \in Rects : r.x0 <= r.x1 /\ r.y0 <= r.y1}
    /\ sPaint \in Paints
    /\ sFails \in BOOLEAN
    /\ sDone = FALSE
    /\ sResult = NoResult
    /\ uploaded_file = <<>>
    /\ search_text = "Premium"
    /\ replace_text = "Standard"
    /\ session_state = [x \in {} |-> 0]
    /\ shown = [Nothing EXCEPT !.info = TRUE]
    /\ lastAction = "load"

SamplerNext == Sample

SamplerSpec == SamplerInit /\ [][SamplerNext]_vars

\* The interactive form under user actions, from the first run of the script
\* with nothing uploaded and the fields at their defaults.
FormInit ==
    /\ op = "none" /\ pc = "idle" /\ hasArg = FALSE /\ inputExists = FALSE
    /\ nPages = 0 /\ page_num = 0 /\ handle = "unopened"
    /\ replacements_count = 0 /\ instances = <<>> /\ rectsSeen = 0
    /\ log = <<>> /\ stdout = {} /\ stderr = {} /\ exitCode = -1
    /\ output = "none"
    /\ sRect = [x0 |-> 0, y0 |-> 0, x1 |-> 0, y1 |-> 0]
    /\ sPaint = [bg |-> White255, left |-> Yellow255, split |-> 0]
    /\ sFails = FALSE
    /\ sDone = FALSE
    /\ sResult = NoResult
    /\ uploaded_file = <<>>
    /\ search_text = "Premium"
    /\ replace_text = "Standard"
    /\ session_state = [x \in {} |-> 0]
    /\ shown = [Nothing EXCEPT !.info = TRUE]
    /\ lastAction = "load"

FormNext ==
    \/ Upload
    \/ EditSearch
    \/ EditReplace
    \/ ClickFind

FormSpec == FormInit /\ [][FormNext]_vars

\* ------------------------------------------------------------------ claims
Ended == pc \in {"done", "raised", "exit"}

Edits == {"draw", "insert"}

\* C1: span matching yields at most one entry per occurrence rectangle the page
\* search reported: no two TextInstances (Locator) and no two cover rectangles
\* (Replacer) share a page and rectangle, and neither the instance list nor
\* the replacement count is larger than the number of rectangles reported.
C1_OneEntryPerRectangle ==
    /\ \A i, j \in 1..Len(instances) :
         i # j => <<instances[i].page, instances[i].rect>>
                    # <<instances[j].page, instances[j].rect>>
    /\ \A i, j \in 1..Len(log) :
         (i # j /\ log[i].kind = "draw" /\ log[j].kind = "draw")
            => <<log[i].page, log[i].rect>> # <<log[j].page, log[j].rect>>
    /\ Len(instances) <= rectsSeen
    /\ replacements_count <= rectsSeen

\* C2: in the Replacer no background sample on a page follows a cover
\* rectangle or a text insertion on that page: all samples of a page are taken
\* before its first edit.
C2_SamplesBeforeEdits ==
    op \in {"replace", "cli"} =>
        \A i, j \in 1..Len(log) :
            (i < j /\ log[i].kind \in Edits /\ log[j].kind = "sample")
               => log[i].page # log[j].page

\* C3: when an operation has ended, normally or with an error, the document
\* handle it opened is closed.
C3_HandleClosedAtEnd == Ended => handle # "open"

\* C4: a cli run that fails on a given input path (not found, or an exception)
\* ends with exit code 1, an error on standard error and nothing at the output
\* path; an output file exists after a run only if the run reported success.
C4_FailedRunLeavesNoOutput ==
    op = "cli" =>
        /\ (pc = "exit" /\ hasArg) =>
              /\ exitCode = 1
              /\ stderr # {}
              /\ output = "none"
        /\ (Ended /\ output # "none") => (exitCode = 0 /\ "success" \in stdout)

\* C6: while the page search has reported no rectangle on any page, the
\* Locator's list is empty, the Replacer's count is 0 and no background
\* sample, cover rectangle or text insertion has been made on any page.
C6_NoOccurrenceNoEffect ==
    rectsSeen = 0 =>
        /\ instances = <<>>
        /\ replacements_count = 0
        /\ log = <<>>

\* A Replacer run over a document of several pages, none with an occurrence,
\* that returned its output.
C6_Witness ==
    /\ op = "replace" /\ pc = "done" /\ nPages > 1 /\ page_num = nPages
    /\ rectsSeen = 0 /\ replacements_count = 0 /\ output = "complete"

\* C7: started without an input path, the cli writes the usage message to
\* standard error and not to standard output, exits with 1, opens no document
\* and writes no output file.
C7_UsageOnStderr ==
    (op = "cli" /\ ~hasArg /\ pc = "exit") =>
        /\ "usage" \in stderr
        /\ "usage" \notin stdout
        /\ exitCode = 1
        /\ handle = "unopened"
        /\ output = "none"

\* A rectangle of zero width or zero height.
Degenerate(rect) == rect.x0 = rect.x1 \/ rect.y0 = rect.y1

Scaled(c) == <<Div255(c[1]), Div255(c[2]), Div255(c[3])>>

\* Equality of two colors on the 0-1 scale.
SameColor(a, b) == \A ch \in 1..3 : a[ch].num * b[ch].den = b[ch].num * a[ch].den

\* C5 as stated: on a zero-width or zero-height rectangle the sampler returns
\* white, whatever the page's color.
C5_DegenerateIsWhite ==
    (sDone /\ Degenerate(sRect)) => SameColor(sResult.color, DefaultWhite)

\* C5 as amended: on a zero-width or zero-height rectangle the sampler returns
\* the default white when rasterization fails or the rectangle grown by 5
\* left/right and 2 up/down has no pixel on the page; otherwise it returns a
\* color of the page, which on a page of one color is that color.
C5_DegenerateSamplesSurround ==
    (sDone /\ Degenerate(sRect)) =>
        LET x0 == Max(sRect.x0 - 5, 0)
            x1 == Min(sRect.x1 + 5, PageW)
            y0 == Max(sRect.y0 - 2, 0)
            y1 == Min(sRect.y1 + 2, PageH)
        IN  IF sFails \/ x1 <= x0 \/ y1 <= y0
            THEN sResult.color = DefaultWhite
            ELSE /\ sResult.color \in {Scaled(sPaint.bg), Scaled(sPaint.left)}
                 /\ sPaint.split = 0 => sResult.color = Scaled(sPaint.bg)
                 /\ sResult.samples > 0

\* A zero-width rectangle on a page that is yellow all over: the sample is
\* yellow, not white.
C5_Witness ==
    /\ sDone /\ ~sFails
    /\ sRect.x0 = sRect.x1 /\ sRect.y0 < sRect.y1
    /\ sPaint.bg = Yellow255 /\ sPaint.split = 0
    /\ sResult.color = Scaled(Yellow255)
    /\ ~SameColor(sResult.color, DefaultWhite)

\* C9 as stated: at most 10 sample columns, hence at most 20 samples.
C9_AtMostTenColumns ==
    sDone => (sResult.columns <= 10 /\ sResult.samples <= 20)

\* C9 as amended: at most 19 sample columns, hence at most 38 samples, and
\* at most 10 columns when the width is at most 10 or a multiple of 10.
C9_AtMostNineteenColumns ==
    sDone =>
        LET w == Pixmap(Expanded(sRect)).width
        IN  /\ sResult.columns <= 19
            /\ sResult.samples <= 38
            /\ sResult.samples <= 2 * sResult.columns
            /\ (~sFails /\ (w <= 10 \/ w % 10 = 0)) => sResult.columns = Min(w, 10)

\* A region 19 pixels wide and two rows high: 19 columns, 38 samples.
C9_Witness ==
    /\ sDone /\ ~sFails
    /\ Pixmap(Expanded(sRect)).width = 19
    /\ sResult.columns = 19 /\ sResult.samples = 38

\* C8: a click on Find with an empty search string is reported with a warning
\* and nothing else is shown in that run: no results list, no preview pair,
\* no download.
C8_EmptySearchWarns ==
    (lastAction = "find" /\ search_text = "") =>
        /\ shown.warnings # {}
        /\ shown.results = <<>>
        /\ shown.previews = <<>>
        /\ shown.download = <<>>

\* C10: whenever the results list, the preview pair or the download is shown,
\* the session record holds the uploaded file's bytes and the fields' current
\* values, and what is shown was computed from them.
C10_ShownIsCurrent ==
    (shown.results # <<>> \/ shown.previews # <<>> \/ shown.download # <<>>) =>
        LET bytes == uploaded_file[1].bytes
        IN  /\ session_state["pdf_bytes"] = bytes
            /\ session_state["search_text"] = search_text
            /\ session_state["replace_text"] = replace_text
            /\ shown.results = FindTextInstances(bytes, search_text)
            /\ shown.download[1].data
                 = ReplaceTextInPdf(bytes, search_text, replace_text).bytes
            /\ shown.download[1].file_name = OutputFilename(uploaded_file[1].name)

====
